---- MODULE Spec2Model ----
(***************************************************************************)
(* Model of the Trainer (src/trainer.ts): the bounded FIFO sample buffer,  *)
(* the epoch scheduler train(), the continuous-training loop driven by     *)
(* requestAnimationFrame, and the statistics observer.                     *)
(*                                                                         *)
(* Numbers.  Telemetry features are carried in tenths (birdY = 6 stands    *)
(* for 0.6).  A loss is a non-negative integer; a quotient of two numbers  *)
(* is kept as the pair [num, den], den = 0 standing for NaN (0/0).         *)
(*                                                                         *)
(* The network.  The Trainer only calls nn.train(inputs, target, lr).      *)
(* The network's parameters are a function of the train steps applied to   *)
(* it, so the model keeps the number of train steps applied (nn.updates);  *)
(* the MSE a step returns is any value of MseValues.                       *)
(*                                                                         *)
(* Control.  JavaScript runs every handler to completion.  train() is      *)
(* modelled one iteration of its epoch loop and of its batch loop at a     *)
(* time, with a program counter pc; while pc # "idle" or a frame's         *)
(* callbacks are being run no other handler can start.                     *)
(***************************************************************************)
EXTENDS Integers, Sequences, FiniteSets, TLC

\* ------------------------------------------------------------------ bounds
\* Scaled stand-in for maxSamples (10000 at src/trainer.ts:10).
maxSamples == 3

\* Scaled stand-in for batchSize (32 at src/trainer.ts:11 and src/app.ts:158).
batchSize == 2

\* Largest epoch count a caller of train() passes.
MaxEpochs == 2

\* Cap on the samples added since the last reset.
MaxAdds == 4

\* Cap on how far below zero trainedEpochs is followed.
MaxNegEpochs == 2

\* Cap on the number of animation-frame callbacks registered at once.
MaxCallbacks == 2

\* Cap on the train steps callers of train() apply to the network.
MaxUpdates == 6

\* Cap on the bursts of the continuous loop that train the network.
MaxBursts == 2

\* Scaled stand-in for the sample count that enables the Watch AI button
\* (100 at src/app.ts:123).
watchThreshold == 3

\* Scaled stand-in for the hidden layer's size (8 at src/app.ts:60).
HiddenSize == 2

\* Cap on the train steps applied to the networks taken on their own.
MaxTrains == 2

\* ------------------------------------------------------------ value sets
Null == "null"

\* An absent (null / undefined) telemetry argument.
NoGameState == [absent |-> TRUE]

\* Telemetry records as Game.getGameState builds them (tenths).
GameStates ==
    { [birdY |-> 6, birdVelocity |-> 5, pipeDistance |-> 10, pipeGapY |-> 4] }

Actions == {0, 1}

LearningRates == {1}

EpochArgs == (-1)..MaxEpochs

\* The MSE values one network train step returns (a loss is >= 0).
MseValues == {0, 1}

\* Epoch count of one burst of the continuous loop (10 in the source, scaled).
BurstEpochs == MaxEpochs

\* new NeuralNetwork(4, 8, 1)
InputSize == 4

OutputSize == 1

\* Values of Math.random() * 2 - 1, in tenths.
InitialWeights == {0, 5}

\* Input vectors: the telemetry of two game states, one vector too short
\* and one too long.
InputVectors ==
    { << 6, 5, 10, 4 >>, << 3, 5, 2, 7 >>, << 6, 5, 10 >>, << 6, 5, 10, 4, 0 >> }

TargetVectors == { << 0 >>, << 10 >> }

\* Learning rate 1.0, in tenths.
NetLearningRates == {10}

NetGameStates ==
    GameStates \cup
    { [birdY |-> 3, birdVelocity |-> 5, pipeDistance |-> 2, pipeGapY |-> 7] }

PayloadWeights == {5}

VARIABLES
    trainingData,    \* Trainer.trainingData
    isTraining,      \* Trainer.isTraining
    trainingStats,   \* Trainer.trainingStats
    onStatsUpdate,   \* Trainer.onStatsUpdate: Null or "set"
    nn,              \* the network the Trainer holds
    pc,              \* position inside train()
    tr,              \* locals of the running train() call
    rafQueue,        \* callbacks registered with requestAnimationFrame
    frameRun,        \* callbacks of the frame being run, not yet called
    inFrame,         \* a frame's callbacks are being run
    added,           \* history: samples added since the last reset
    obs,             \* history: what the last operation did
    epochLog,        \* history: batches handed to the network this epoch
    burstsInFrame,   \* history: training bursts run in the current frame
    mode,            \* App.mode
    game,            \* the Game the App holds: gameState and bird
    watchBtn,        \* the Watch AI button: disabled or not
    tickLog,         \* history: the steps run in the current frame, in order
    nets,            \* NeuralNetwork objects: the model, then its copy
    heap,            \* the parameter arrays the networks refer to
    nobs             \* history: what the last network operation did

\* The App's own state, and the state of the networks taken on their own.
appVars == << mode, game, watchBtn, tickLog >>

netVars == << nets, heap, nobs >>

vars == << trainingData, isTraining, trainingStats, onStatsUpdate, nn, pc, tr,
           rafQueue, frameRun, inFrame, added, obs, epochLog, burstsInFrame,
           appVars, netVars >>

\* ------------------------------------------------------------- numbers
Zero == [num |-> 0, den |-> 1]

\* a / b as JavaScript computes it; a pair with den = 0 is NaN (0/0) or an
\* infinity.
Div(a, b) == IF b # 0 /\ a = 0 THEN Zero ELSE [num |-> a, den |-> b]

RECURSIVE SeqSum(_)
SeqSum(s) == IF s = << >> THEN 0 ELSE Head(s) + SeqSum(Tail(s))

\* array.slice(i, j) on a 0-based array held as a 1-based sequence.
Slice(array, i, j) ==
    LET hi == IF j < Len(array) THEN j ELSE Len(array)
    IN  IF i >= hi THEN << >> ELSE SubSeq(array, i + 1, hi)

\* ------------------------------------------------------------- samples
MakeSample(gameState, optimalAction) ==
    [ inputs |-> << gameState.birdY, gameState.birdVelocity,
                    gameState.pipeDistance, gameState.pipeGapY >>,
      target |-> << optimalAction >> ]

\* birdY > gapY - (velocity - 0.5) * 0.1, all three in tenths.
calculateOptimalAction(gameState) ==
    IF 10 * gameState.birdY > 10 * gameState.pipeGapY - (gameState.birdVelocity - 5)
    THEN 1 ELSE 0

EvictLate(data) == IF Len(data) > maxSamples + 1 THEN Tail(data) ELSE data

EvictNewest(data) ==
    IF Len(data) > maxSamples THEN SubSeq(data, 1, Len(data) - 1) ELSE data

\* if (length > maxSamples) shift()
Evict(data) == IF Len(data) > maxSamples THEN Tail(data) ELSE data

CountAdds(stats, data) == [stats EXCEPT !.totalSamples = @ + 1]

\* trainingStats.totalSamples = trainingData.length
AddSampleStats(stats, data) == [stats EXCEPT !.totalSamples = Len(data)]

\* --------------------------------------------------------------- stats
ZeroStats == [totalSamples |-> 0, currentLoss |-> Zero, trainedEpochs |-> 0]

KeepEpochs(stats) == [ZeroStats EXCEPT !.trainedEpochs = stats.trainedEpochs]

\* the object reset() assigns to trainingStats
ResetStats(stats) == ZeroStats

\* The value of a call that returned nothing.
Undefined == [num |-> -1, den |-> 0]

NewObs(name) ==
    [ op |-> name, error |-> FALSE, ret |-> Undefined, notified |-> 0,
      statsArg |-> ZeroStats, onComplete |-> FALSE ]

\* updateStats(): call the observer, if one is installed, with trainingStats
updateStats(o, observer, stats) ==
    IF observer # Null
    THEN [o EXCEPT !.notified = @ + 1, !.statsArg = stats]
    ELSE o

\* ------------------------------------------------------------- shuffle
Swap(array, i, j) == [array EXCEPT ![i] = array[j], ![j] = array[i]]

\* draws[i] is Math.floor(Math.random() * (i + 1)) of the iteration that
\* fills position i (1-based here: a position in 1..i).
DrawsFor(n) == { d \in [2..n -> 1..n] : \A i \in 2..n : d[i] <= i }

RECURSIVE ShuffleFrom(_, _, _)
ShuffleFrom(array, draws, i) ==
    IF i < 2 THEN array
    ELSE ShuffleFrom(Swap(array, i, draws[i]), draws, i - 1)

RECURSIVE OverwriteFrom(_, _, _)
OverwriteFrom(array, draws, i) ==
    IF i < 2 THEN array
    ELSE OverwriteFrom([array EXCEPT ![i] = array[draws[i]]], draws, i - 1)

ShuffleOverwriting(array, draws) == OverwriteFrom(array, draws, Len(array))

\* Fisher-Yates, from the last position down to the second
shuffle(array, draws) == ShuffleFrom(array, draws, Len(array))

\* ------------------------------------------------------------- network
NewNetwork == [updates |-> 0]

\* NeuralNetwork.train: one in-place update of the parameters
NNTrain(net, inputs, targets, learningRate) == [net EXCEPT !.updates = @ + 1]

\* ---------------------------------------------------------------- game
\* new Game(canvas): no bird until the first reset()
NewGame == [gameState |-> "idle", bird |-> FALSE]

\* The record of a network operation: its name, the network it ran on, and
\* what it returned (a vector, a boolean or a number, by operation).
NewNetObs(name, which) ==
    [ op |-> name, which |-> which, error |-> FALSE,
      vec |-> << >>, flag |-> FALSE, num |-> 0,
      acts |-> [inputs |-> << >>, hidden |-> << >>, output |-> << >>],
      \* history: the train steps applied so far
      trains |-> 0 ]

\* --------------------------------------------------------- train locals
NoCallback == [learningRate |-> 0, onComplete |-> FALSE]

NewTr(caller, cb, learningRate, epochs, stats) ==
    [ caller |-> caller, cb |-> cb,
      learningRate |-> learningRate, epochs |-> epochs,
      totalLoss |-> 0, samplesTrained |-> 0, epoch |-> 0,
      shuffled |-> << >>, i |-> 0,
      \* history: trainedEpochs on entry, and the network calls made
      entryEpochs |-> stats.trainedEpochs, nnCalls |-> 0, mseSum |-> 0 ]

TrIdle == NewTr("none", NoCallback, 0, 0, ZeroStats)

Init ==
    /\ trainingData = << >>
    /\ isTraining = FALSE
    /\ trainingStats = ZeroStats
    /\ onStatsUpdate = Null
    /\ nn = NewNetwork
    /\ pc = "idle"
    /\ tr = TrIdle
    /\ rafQueue = << >>
    /\ frameRun = << >>
    /\ inFrame = FALSE
    /\ added = << >>
    /\ obs = NewObs("new")
    /\ epochLog = << >>
    /\ burstsInFrame = 0
    /\ mode = "idle"
    /\ game = NewGame
    /\ watchBtn = [disabled |-> TRUE]
    /\ tickLog = << >>
    /\ nets = << >>
    /\ heap = << >>
    /\ nobs = NewNetObs("new", 0)

\* No handler is running: a caller's next call can start.
Idle == pc = "idle" /\ ~inFrame

\* The model follows a train() call only while the counters stay in range.
InRange(caller, epochs) ==
    LET cap == IF caller = "trainStep"
               THEN MaxBursts * BurstEpochs * maxSamples
               ELSE MaxUpdates
    IN  /\ trainingStats.trainedEpochs + epochs >= -MaxNegEpochs
        /\ \/ Len(trainingData) < batchSize
           \/ epochs <= 0
           \/ nn.updates + epochs * Len(trainingData) <= cap

\* ------------------------------------------------------------ addSample
addSample(gameState, optimalAction, name) ==
    IF gameState = NoGameState
    THEN /\ obs' = [NewObs(name) EXCEPT !.error = TRUE]
         /\ UNCHANGED << trainingData, trainingStats, added >>
    ELSE LET sample == MakeSample(gameState, optimalAction)
             data   == Evict(Append(trainingData, sample))
             stats  == AddSampleStats(trainingStats, data)
         IN  /\ Len(added) < MaxAdds
             /\ trainingData' = data
             /\ trainingStats' = stats
             /\ obs' = updateStats(NewObs(name), onStatsUpdate, stats)
             /\ added' = Append(added, sample)

AddSample(gameState, optimalAction) ==
    /\ Idle
    /\ addSample(gameState, optimalAction, "addSample")
    /\ UNCHANGED << isTraining, onStatsUpdate, nn, pc, tr, rafQueue, frameRun,
                    inFrame, epochLog, burstsInFrame >>
    /\ UNCHANGED << appVars, netVars >>

CollectFromGameState(gameState) ==
    /\ Idle
    /\ IF gameState = NoGameState
       THEN /\ obs' = [NewObs("collectFromGameState") EXCEPT !.error = TRUE]
            /\ UNCHANGED << trainingData, trainingStats, added >>
       ELSE addSample(gameState, calculateOptimalAction(gameState),
                      "collectFromGameState")
    /\ UNCHANGED << isTraining, onStatsUpdate, nn, pc, tr, rafQueue, frameRun,
                    inFrame, epochLog, burstsInFrame >>
    /\ UNCHANGED << appVars, netVars >>

\* ---------------------------------------------------------------- train
BelowBatchMinusOne(data) == Len(data) < batchSize - 1

\* if (this.trainingData.length < this.batchSize)
NotEnoughData(data) == Len(data) < batchSize

\* totalLoss / samplesTrained
MeanLoss(totalLoss, samplesTrained, data) == Div(totalLoss, samplesTrained)

AddOneEpoch(trainedEpochs, epochs) == trainedEpochs + 1

\* trainedEpochs += epochs
AddEpochs(trainedEpochs, epochs) == trainedEpochs + epochs

\* train() hands ret to its caller: to the API caller, or to the closure
\* trainStep, which goes on to requestAnimationFrame(trainStep).
returnTo(caller, cb, ret, o) ==
    IF caller = "trainStep"
    THEN /\ rafQueue' = Append(rafQueue, cb)
         /\ obs' = o
    ELSE /\ obs' = [o EXCEPT !.ret = ret]
         /\ UNCHANGED rafQueue

\* train(learningRate, epochs) up to its epoch loop; o is the record of the
\* operation that calls it.
train(caller, cb, learningRate, epochs, o) ==
    /\ InRange(caller, epochs)
    /\ IF NotEnoughData(trainingData)
       THEN /\ returnTo(caller, cb, Zero, o)
            /\ UNCHANGED << pc, tr, burstsInFrame >>
       ELSE /\ pc' = "epoch"
            /\ tr' = NewTr(caller, cb, learningRate, epochs, trainingStats)
            /\ obs' = o
            /\ burstsInFrame' = IF inFrame THEN burstsInFrame + 1
                                ELSE burstsInFrame
            /\ UNCHANGED rafQueue

Train(learningRate, epochs) ==
    /\ Idle
    /\ train("api", NoCallback, learningRate, epochs, NewObs("train"))
    /\ UNCHANGED << trainingData, isTraining, trainingStats, onStatsUpdate, nn,
                    frameRun, inFrame, added, epochLog >>
    /\ UNCHANGED << appVars, netVars >>

\* for (epoch = 0; epoch < epochs; epoch++): the loop test with the shuffle
\* that opens an iteration, or the exit to the statements after the loop
TrainEpoch ==
    /\ pc = "epoch"
    /\ IF tr.epoch < tr.epochs
       THEN \E draws \in DrawsFor(Len(trainingData)) :
                /\ tr' = [tr EXCEPT !.shuffled = shuffle(trainingData, draws),
                                    !.i = 0]
                /\ pc' = "batch"
                /\ epochLog' = << >>
                /\ UNCHANGED << trainingStats, obs, rafQueue >>
       ELSE LET stats == [trainingStats EXCEPT
                             !.currentLoss = MeanLoss(tr.totalLoss,
                                                      tr.samplesTrained,
                                                      trainingData),
                             !.trainedEpochs = AddEpochs(@, tr.epochs)]
            IN  /\ trainingStats' = stats
                /\ returnTo(tr.caller, tr.cb, stats.currentLoss,
                          updateStats(obs, onStatsUpdate, stats))
                /\ pc' = "idle"
                /\ tr' = TrIdle
                /\ epochLog' = << >>
    /\ UNCHANGED << trainingData, isTraining, onStatsUpdate, nn, frameRun,
                    inFrame, added, burstsInFrame >>
    /\ UNCHANGED << appVars, netVars >>

RECURSIVE TrainOnBatch(_, _, _, _)
\* for (const sample of batch): nn.train on each sample in turn; mses[k] is
\* the MSE the k-th call returns
TrainOnBatch(net, batch, learningRate, mses) ==
    IF batch = << >> THEN net
    ELSE TrainOnBatch(NNTrain(net, Head(batch).inputs, Head(batch).target,
                              learningRate),
                      Tail(batch), learningRate, Tail(mses))

\* for (i = 0; i < shuffled.length; i += batchSize): one iteration, or the
\* exit to epoch++
TrainBatch ==
    /\ pc = "batch"
    /\ IF tr.i < Len(tr.shuffled)
       THEN LET batch == Slice(tr.shuffled, tr.i, tr.i + batchSize)
            IN  \E mses \in [1..Len(batch) -> MseValues] :
                    /\ nn' = TrainOnBatch(nn, batch, tr.learningRate, mses)
                    /\ tr' = [tr EXCEPT
                                 !.totalLoss = @ + SeqSum(mses),
                                 !.samplesTrained = @ + Len(batch),
                                 !.i = @ + batchSize,
                                 !.nnCalls = @ + Len(batch),
                                 !.mseSum = @ + SeqSum(mses)]
                    /\ epochLog' = Append(epochLog, batch)
                    /\ pc' = "batch"
       ELSE /\ tr' = [tr EXCEPT !.epoch = @ + 1]
            /\ pc' = "epoch"
            /\ UNCHANGED << nn, epochLog >>
    /\ UNCHANGED << trainingData, isTraining, trainingStats, onStatsUpdate,
                    rafQueue, frameRun, inFrame, added, obs, burstsInFrame >>
    /\ UNCHANGED << appVars, netVars >>

\* ---------------------------------------------------------------- reset
Reset ==
    /\ Idle
    /\ trainingData' = << >>
    /\ trainingStats' = ResetStats(trainingStats)
    /\ obs' = updateStats(NewObs("reset"), onStatsUpdate, trainingStats')
    /\ added' = << >>
    /\ UNCHANGED << isTraining, onStatsUpdate, nn, pc, tr, rafQueue, frameRun,
                    inFrame, epochLog, burstsInFrame >>
    /\ UNCHANGED << appVars, netVars >>

\* The owner installs the statistics observer.
SetOnStatsUpdate ==
    /\ Idle
    /\ onStatsUpdate = Null
    /\ onStatsUpdate' = "set"
    /\ obs' = NewObs("setOnStatsUpdate")
    /\ UNCHANGED << trainingData, isTraining, trainingStats, nn, pc, tr,
                    rafQueue, frameRun, inFrame, added, epochLog, burstsInFrame >>
    /\ UNCHANGED << appVars, netVars >>

\* ------------------------------------------------- continuous training
RequeueWhenStopped(queue, cb) == Append(queue, cb)

\* if (!this.isTraining) { ...; return; }: nothing is registered again
StoppedQueue(queue, cb) == queue

\* The closure trainStep of the loop cb, run with the flag as it stands; o
\* is the record of the operation that runs it.
trainStep(cb, flag, o) ==
    IF ~flag
    THEN /\ obs' = [o EXCEPT !.onComplete = cb.onComplete]
         /\ rafQueue' = StoppedQueue(rafQueue, cb)
         /\ UNCHANGED << pc, tr, burstsInFrame >>
    ELSE train("trainStep", cb, cb.learningRate, BurstEpochs, o)

StartTraining(learningRate, onComplete) ==
    /\ Idle
    /\ Len(rafQueue) < MaxCallbacks
    /\ isTraining' = TRUE
    /\ trainStep([learningRate |-> learningRate, onComplete |-> onComplete],
                 isTraining', NewObs("startTraining"))
    /\ UNCHANGED << trainingData, trainingStats, onStatsUpdate, nn, frameRun,
                    inFrame, added, epochLog >>
    /\ UNCHANGED << appVars, netVars >>

StopTraining ==
    /\ Idle
    /\ isTraining' = FALSE
    /\ obs' = NewObs("stopTraining")
    /\ UNCHANGED << trainingData, trainingStats, onStatsUpdate, nn, pc, tr,
                    rafQueue, frameRun, inFrame, added, epochLog, burstsInFrame >>
    /\ UNCHANGED << appVars, netVars >>

\* ------------------------------------------------------ animation frames
\* The host starts a frame: the callbacks registered so far are the ones it
\* runs, in registration order; callbacks registered meanwhile wait.
FrameBegin ==
    /\ Idle
    /\ rafQueue # << >>
    /\ frameRun' = rafQueue
    /\ rafQueue' = << >>
    /\ inFrame' = TRUE
    /\ burstsInFrame' = 0
    /\ tickLog' = << >>
    /\ UNCHANGED << trainingData, isTraining, trainingStats, onStatsUpdate, nn,
                    pc, tr, added, obs, epochLog >>
    /\ UNCHANGED << mode, game, watchBtn, netVars >>

\* The frame calls its next callback; after the last one it is over.
RunCallback ==
    /\ inFrame
    /\ pc = "idle"
    /\ frameRun # << >>
    /\ frameRun' = Tail(frameRun)
    /\ trainStep(Head(frameRun), isTraining, NewObs("trainStep"))
    /\ UNCHANGED << trainingData, isTraining, trainingStats, onStatsUpdate, nn,
                    inFrame, added, epochLog >>
    /\ UNCHANGED << appVars, netVars >>

FrameEnd ==
    /\ inFrame
    /\ pc = "idle"
    /\ frameRun = << >>
    /\ inFrame' = FALSE
    /\ UNCHANGED << trainingData, isTraining, trainingStats, onStatsUpdate, nn,
                    pc, tr, rafQueue, frameRun, added, obs, epochLog,
                    burstsInFrame >>
    /\ UNCHANGED << appVars, netVars >>

\* ------------------------------------------------- the network, in full
\* Numbers of the network are in tenths as well: a product of two numbers is
\* rounded to the nearest tenth, and the sigmoid to a tenth away from 0.5,
\* so that sigmoid(x) > 0.5 exactly when x > 0.  NaN stands for NaN; reading
\* an array past its end gives undefined, which arithmetic turns into NaN.
NaN == 1000000

Round(x) == IF x >= 0 THEN (x + 5) \div 10 ELSE -((5 - x) \div 10)

Plus(a, b) == IF a = NaN \/ b = NaN THEN NaN ELSE a + b

Minus(a, b) == IF a = NaN \/ b = NaN THEN NaN ELSE a - b

Times(a, b) == IF a = NaN \/ b = NaN THEN NaN ELSE Round(a * b)

RECURSIVE PlusSeq(_)
PlusSeq(s) == IF s = << >> THEN 0 ELSE Plus(Head(s), PlusSeq(Tail(s)))

\* 1 / (1 + Math.exp(-x)) for x > 0, in tenths, rounded up
SigmoidUp(x) ==
    IF x <= 4 THEN 6
    ELSE IF x <= 8 THEN 7
    ELSE IF x <= 13 THEN 8
    ELSE IF x <= 21 THEN 9
    ELSE 10

sigmoid(x) ==
    IF x = NaN THEN NaN
    ELSE IF x = 0 THEN 5
    ELSE IF x > 0 THEN SigmoidUp(x)
    ELSE 10 - SigmoidUp(-x)

\* x * (1 - x)
sigmoidDerivative(x) == Times(x, Minus(10, x))

\* array[i] for a 0-based index i: undefined past the end
At(array, i) == IF i < Len(array) THEN array[i + 1] ELSE NaN

\* new Array(n).fill(0)
Zeros(n) == [j \in 1..n |-> 0]

\* A cached activation vector: null, or the array last assigned.
NoVector == [present |-> FALSE, v |-> << >>]

Some(v) == [present |-> TRUE, v |-> v]

\* history of a network: whether a forward pass got past the length check
\* (entered), whether the most recent such pass returned (ok) and its inputs;
\* whether some pass returned (done) and the vectors of the most recent one
NoPass ==
    [ entered |-> FALSE, ok |-> FALSE, inputs |-> << >>,
      done |-> FALSE,
      last |-> [inputs |-> << >>, hidden |-> << >>, output |-> << >>] ]

\* The smallest address the heap does not use.
Fresh(h) ==
    CHOOSE a \in 1..(Cardinality(DOMAIN h) + 1) :
        a \notin DOMAIN h /\ \A b \in 1..(a - 1) : b \in DOMAIN h

RECURSIVE Allocate(_, _, _)
\* Put each array of arrays into a new cell of the heap h; addrs collects
\* the addresses.
Allocate(h, arrays, addrs) ==
    IF arrays = << >> THEN [heap |-> h, addrs |-> addrs]
    ELSE LET a == Fresh(h)
         IN  Allocate([b \in DOMAIN h \cup {a} |->
                          IF b = a THEN Head(arrays) ELSE h[b]],
                      Tail(arrays), Append(addrs, a))

\* initializeWeights(rows, cols) with every Math.random() * 2 - 1 equal to w
initializeWeights(rows, cols, w) == [i \in 1..rows |-> [j \in 1..cols |-> w]]

\* new NeuralNetwork(inputSize, hiddenSize, outputSize): the object and the
\* heap that holds its four parameter arrays
NewNeuralNetwork(h, inputSize, hiddenSize, outputSize, wIH, wHO) ==
    LET al == Allocate(h, << initializeWeights(inputSize, hiddenSize, wIH),
                             initializeWeights(hiddenSize, outputSize, wHO),
                             Zeros(hiddenSize), Zeros(outputSize) >>, << >>)
    IN  [ heap |-> al.heap,
          net |-> [ inputSize |-> inputSize, hiddenSize |-> hiddenSize,
                    outputSize |-> outputSize,
                    weightsIH |-> al.addrs[1], weightsHO |-> al.addrs[2],
                    biasH |-> al.addrs[3], biasO |-> al.addrs[4],
                    lastInputs |-> NoVector, lastHidden |-> NoVector,
                    lastOutput |-> NoVector, pass |-> NoPass ] ]

\* The parameter arrays of a network.
Addresses(net) == { net.weightsIH, net.weightsHO, net.biasH, net.biasO }

\* The references of the networks ns, in a fixed order.
RECURSIVE Refs(_)
Refs(ns) ==
    IF ns = << >> THEN << >>
    ELSE << Head(ns).weightsIH, Head(ns).weightsHO, Head(ns).biasH,
            Head(ns).biasO >> \o Refs(Tail(ns))

\* The heap without the arrays no network of ns refers to any more, and the
\* networks, the arrays renumbered in the order of Refs(ns): an address is
\* only ever compared with another, so the numbering is immaterial.
Compact(h, ns) ==
    LET refs == Refs(ns)
        first(a) == CHOOSE j \in 1..Len(refs) :
                        refs[j] = a /\ \A l \in 1..(j - 1) : refs[l] # a
        to(a) == Cardinality({ refs[l] : l \in 1..first(a) })
        live == { refs[j] : j \in 1..Len(refs) }
    IN  [ heap |-> [ b \in 1..Cardinality(live) |->
                       h[CHOOSE a \in live : to(a) = b] ],
          nets |-> [ k \in 1..Len(ns) |->
                       [ns[k] EXCEPT !.weightsIH = to(@), !.weightsHO = to(@),
                                     !.biasH = to(@), !.biasO = to(@)] ] ]

\* The hidden activations forwardPass computes.
HiddenOf(net, h, inputs) ==
    [ hh \in 1..net.hiddenSize |->
        sigmoid(Plus(At(h[net.biasH], hh - 1),
                     PlusSeq([ i \in 1..net.inputSize |->
                                 Times(At(inputs, i - 1),
                                       At(h[net.weightsIH][i], hh - 1)) ]))) ]

\* The output activations forwardPass computes from the hidden ones.
OutputOf(net, h, hidden) ==
    [ o \in 1..net.outputSize |->
        sigmoid(Plus(At(h[net.biasO], o - 1),
                     PlusSeq([ hh \in 1..net.hiddenSize |->
                                 Times(hidden[hh],
                                       At(h[net.weightsHO][hh], o - 1)) ]))) ]

TooShort(net, inputs) == Len(inputs) < net.inputSize

\* if (inputs.length !== this.inputSize) throw
WrongLength(net, inputs) == Len(inputs) # net.inputSize

\* forwardPass(inputs): the network after the call, whether it threw, and
\* the vector it returned.  Reading a row the weights do not have is a
\* TypeError, raised with the caches as far as they were written.
forwardPass(net, h, inputs) ==
    IF WrongLength(net, inputs)
    THEN [error |-> TRUE, net |-> net, out |-> << >>]
    ELSE IF net.hiddenSize > 0 /\ Len(h[net.weightsIH]) < net.inputSize
    THEN [error |-> TRUE, out |-> << >>,
          net |-> [net EXCEPT !.lastInputs = Some(inputs),
                              !.lastHidden = Some(<< >>)]]
    ELSE LET hidden == HiddenOf(net, h, inputs)
         IN  IF net.outputSize > 0 /\ Len(h[net.weightsHO]) < net.hiddenSize
             THEN [error |-> TRUE, out |-> << >>,
                   net |-> [net EXCEPT !.lastInputs = Some(inputs),
                                       !.lastHidden = Some(hidden),
                                       !.lastOutput = Some(<< >>)]]
             ELSE LET output == OutputOf(net, h, hidden)
                  IN  [error |-> FALSE, out |-> output,
                       net |-> [net EXCEPT !.lastInputs = Some(inputs),
                                           !.lastHidden = Some(hidden),
                                           !.lastOutput = Some(output)]]

CachesOnly(net) ==
    [ inputs |-> net.lastInputs.v, hidden |-> net.lastHidden.v,
      output |-> net.lastOutput.v ]

\* getActivations(): the caches, or zero-filled arrays for the null ones
getActivations(net) ==
    [ inputs |-> IF net.lastInputs.present THEN net.lastInputs.v
                 ELSE Zeros(net.inputSize),
      hidden |-> IF net.lastHidden.present THEN net.lastHidden.v
                 ELSE Zeros(net.hiddenSize),
      output |-> IF net.lastOutput.present THEN net.lastOutput.v
                 ELSE Zeros(net.outputSize) ]

Max(a, b) == IF a > b THEN a ELSE b

\* array[j] += delta[j] for the 0-based j below n: an element past the end
\* of the array is created, as NaN
AddTo(array, n, delta) ==
    [ j \in 1..Max(Len(array), n) |->
        IF j <= n THEN Plus(At(array, j - 1), delta[j]) ELSE array[j] ]

\* mse /= this.outputSize
Quotient(a, n) == IF a = NaN THEN NaN ELSE a \div n

\* NeuralNetwork.train(inputs, targets, learningRate): the network and the
\* heap after the call, whether it threw, and the MSE it returned
networkTrain(net, h, inputs, targets, learningRate) ==
    LET r == forwardPass(net, h, inputs)
    IN  IF r.error
        THEN [error |-> TRUE, net |-> r.net, heap |-> h, mse |-> 0,
              out |-> << >>]
        ELSE
        LET outputs == r.out
            hidden  == r.net.lastHidden.v
            errors  == [ o \in 1..net.outputSize |->
                           Minus(At(targets, o - 1), outputs[o]) ]
            outputErrors ==
                [ o \in 1..net.outputSize |->
                    Times(errors[o], sigmoidDerivative(outputs[o])) ]
            mse == Quotient(PlusSeq([ o \in 1..net.outputSize |->
                                        Times(errors[o], errors[o]) ]),
                            net.outputSize)
            hiddenErrors ==
                [ hh \in 1..net.hiddenSize |->
                    Times(PlusSeq([ o \in 1..net.outputSize |->
                                      Times(outputErrors[o],
                                            At(h[net.weightsHO][hh], o - 1)) ]),
                          sigmoidDerivative(hidden[hh])) ]
            weightsHO ==
                [ hh \in 1..Len(h[net.weightsHO]) |->
                    IF hh <= net.hiddenSize
                    THEN AddTo(h[net.weightsHO][hh], net.outputSize,
                               [ o \in 1..net.outputSize |->
                                   Times(Times(learningRate, outputErrors[o]),
                                         hidden[hh]) ])
                    ELSE h[net.weightsHO][hh] ]
            biasO == AddTo(h[net.biasO], net.outputSize,
                           [ o \in 1..net.outputSize |->
                               Times(learningRate, outputErrors[o]) ])
            weightsIH ==
                [ i \in 1..Len(h[net.weightsIH]) |->
                    IF i <= net.inputSize
                    THEN AddTo(h[net.weightsIH][i], net.hiddenSize,
                               [ hh \in 1..net.hiddenSize |->
                                   Times(Times(learningRate, hiddenErrors[hh]),
                                         inputs[i]) ])
                    ELSE h[net.weightsIH][i] ]
            biasH == AddTo(h[net.biasH], net.hiddenSize,
                           [ hh \in 1..net.hiddenSize |->
                               Times(learningRate, hiddenErrors[hh]) ])
            h4 == [h EXCEPT ![net.weightsHO] = weightsHO,
                            ![net.biasO] = biasO,
                            ![net.weightsIH] = weightsIH,
                            ![net.biasH] = biasH]
        IN  [error |-> FALSE, net |-> r.net, heap |-> h4, mse |-> mse,
             out |-> outputs]

\* const inputs = [birdY, birdVelocity, pipeDistance, pipeGapY]
PredictInputs(gameState) ==
    << gameState.birdY, gameState.birdVelocity,
       gameState.pipeDistance, gameState.pipeGapY >>

AtLeastHalf(x) == x # NaN /\ x >= 5

\* x > 0.5: false for NaN
AboveHalf(x) == x # NaN /\ x > 5

PredictAbsentAsZeros(net, h, gameState) ==
    LET inputs == IF gameState = NoGameState THEN Zeros(net.inputSize)
                  ELSE PredictInputs(gameState)
        r == forwardPass(net, h, inputs)
    IN  [error |-> r.error, net |-> r.net, out |-> r.out,
         flag |-> ~r.error /\ AboveHalf(At(r.out, 0))]

\* predict(gameState)
predict(net, h, gameState) ==
    IF gameState = NoGameState
    THEN [error |-> TRUE, net |-> net, flag |-> FALSE, out |-> << >>]
    ELSE LET r == forwardPass(net, h, PredictInputs(gameState))
         IN  [error |-> r.error, net |-> r.net, out |-> r.out,
              flag |-> ~r.error /\ AboveHalf(At(r.out, 0))]

\* The network object without its caches.
Uncached(net) ==
    [net EXCEPT !.lastInputs = NoVector, !.lastHidden = NoVector,
                !.lastOutput = NoVector, !.pass = NoPass]

ShallowCopy(net, h) == [error |-> FALSE, net |-> Uncached(net), heap |-> h]

\* copy(): a new network of the same sizes whose weights are overwritten
\* element by element and whose biases are spread copies; reading a row the
\* source does not have is a TypeError
copy(net, h) ==
    IF \/ net.hiddenSize > 0 /\ Len(h[net.weightsIH]) < net.inputSize
       \/ net.outputSize > 0 /\ Len(h[net.weightsHO]) < net.hiddenSize
    THEN [error |-> TRUE, net |-> net, heap |-> h]
    ELSE LET new == NewNeuralNetwork(h, net.inputSize, net.hiddenSize,
                                     net.outputSize, 0, 0)
             weightsIH == [ i \in 1..net.inputSize |->
                              [ hh \in 1..net.hiddenSize |->
                                  At(h[net.weightsIH][i], hh - 1) ] ]
             weightsHO == [ hh \in 1..net.hiddenSize |->
                              [ o \in 1..net.outputSize |->
                                  At(h[net.weightsHO][hh], o - 1) ] ]
             biases == Allocate(new.heap, << h[net.biasH], h[net.biasO] >>,
                                << >>)
         IN  [ error |-> FALSE,
               net |-> [new.net EXCEPT !.biasH = biases.addrs[1],
                                       !.biasO = biases.addrs[2]],
               heap |-> [biases.heap EXCEPT
                            ![new.net.weightsIH] = weightsIH,
                            ![new.net.weightsHO] = weightsHO] ]

\* The object JSON.parse builds from the JSON text of a network of the
\* given sizes whose weights and biases all equal w.
Payload(inputSize, hiddenSize, outputSize, w) ==
    [ weightsIH |-> initializeWeights(inputSize, hiddenSize, w),
      weightsHO |-> initializeWeights(hiddenSize, outputSize, w),
      biasH |-> [j \in 1..hiddenSize |-> w],
      biasO |-> [j \in 1..outputSize |-> w] ]

\* Well-formed payloads: of the model's sizes, and with one size one off.
Payloads ==
    { Payload(InputSize + d, HiddenSize, OutputSize, w) :
          d \in -1..1, w \in PayloadWeights }
    \cup { Payload(InputSize, HiddenSize + d, OutputSize, w) :
               d \in -1..1, w \in PayloadWeights }
    \cup { Payload(InputSize, HiddenSize, OutputSize + d, w) :
               d \in -1..1, w \in PayloadWeights }

\* The payloads and inputs used on a network and its copy.
CopyPayloads ==
    { Payload(InputSize + d, HiddenSize, OutputSize, w) :
          d \in {-1, 1}, w \in PayloadWeights }

CopyInputs == { << 6, 5, 10, 4 >> }

KeepBiases(net, h, data) ==
    LET al == Allocate(h, << data.weightsIH, data.weightsHO >>, << >>)
    IN  [ heap |-> al.heap,
          net |-> [net EXCEPT !.weightsIH = al.addrs[1],
                              !.weightsHO = al.addrs[2]] ]

\* fromJSON(json): the four fields are replaced by the parsed arrays
fromJSON(net, h, data) ==
    LET al == Allocate(h, << data.weightsIH, data.weightsHO,
                             data.biasH, data.biasO >>, << >>)
    IN  [ heap |-> al.heap,
          net |-> [net EXCEPT !.weightsIH = al.addrs[1],
                              !.weightsHO = al.addrs[2],
                              !.biasH = al.addrs[3],
                              !.biasO = al.addrs[4]] ]

\* ------------------------------------------------ network operations
\* The Trainer's and the App's variables, which the network on its own
\* leaves alone.
trainerVars ==
    << trainingData, isTraining, trainingStats, onStatsUpdate, nn, pc, tr,
       rafQueue, frameRun, inFrame, added, obs, epochLog, burstsInFrame >>

\* The network a forward pass on inputs leaves, with its history: r is what
\* the operation made of the network net on the heap h.
Passed(net, h, r, inputs) ==
    IF Len(inputs) # net.inputSize THEN r.net
    ELSE IF r.error
    THEN [r.net EXCEPT !.pass.entered = TRUE, !.pass.ok = FALSE,
                       !.pass.inputs = inputs]
    ELSE [r.net EXCEPT !.pass.entered = TRUE, !.pass.ok = TRUE,
                       !.pass.inputs = inputs, !.pass.done = TRUE,
                       !.pass.last = [inputs |-> inputs,
                                      hidden |-> HiddenOf(net, h, inputs),
                                      output |-> r.out]]

\* The record of the operation name on network k.
NetObs(name, k) == [NewNetObs(name, k) EXCEPT !.trains = nobs.trains]

\* A model as the App builds it, its weights drawn by initializeWeights.
NetInit ==
    /\ trainingData = << >>
    /\ isTraining = FALSE
    /\ trainingStats = ZeroStats
    /\ onStatsUpdate = Null
    /\ nn = NewNetwork
    /\ pc = "idle"
    /\ tr = TrIdle
    /\ rafQueue = << >>
    /\ frameRun = << >>
    /\ inFrame = FALSE
    /\ added = << >>
    /\ obs = NewObs("new")
    /\ epochLog = << >>
    /\ burstsInFrame = 0
    /\ mode = "idle"
    /\ game = NewGame
    /\ watchBtn = [disabled |-> TRUE]
    /\ tickLog = << >>
    /\ \E wIH \in InitialWeights, wHO \in InitialWeights :
           LET new == NewNeuralNetwork(<< >>, InputSize, HiddenSize,
                                       OutputSize, wIH, wHO)
           IN  /\ nets = << new.net >>
               /\ heap = new.heap
    /\ nobs = NewNetObs("new", 1)

ForwardPass(k, inputs) ==
    /\ k \in 1..Len(nets)
    /\ LET r == forwardPass(nets[k], heap, inputs)
       IN  /\ nets' = [nets EXCEPT ![k] = Passed(nets[k], heap, r, inputs)]
           /\ nobs' = [NetObs("forwardPass", k) EXCEPT
                          !.error = r.error, !.vec = r.out]
    /\ UNCHANGED << heap, trainerVars, appVars >>

GetActivations(k) ==
    /\ k \in 1..Len(nets)
    /\ nobs' = [NetObs("getActivations", k) EXCEPT
                   !.acts = getActivations(nets[k])]
    /\ UNCHANGED << nets, heap, trainerVars, appVars >>

NetTrain(k, inputs, targets, learningRate) ==
    /\ k \in 1..Len(nets)
    /\ nobs.trains < MaxTrains
    /\ LET r == networkTrain(nets[k], heap, inputs, targets, learningRate)
       IN  /\ nets' = [nets EXCEPT ![k] = Passed(nets[k], heap, r, inputs)]
           /\ heap' = r.heap
           /\ nobs' = [NetObs("train", k) EXCEPT
                          !.error = r.error, !.num = r.mse,
                          !.trains = IF r.error THEN @ ELSE @ + 1]
    /\ UNCHANGED << trainerVars, appVars >>

Predict(k, gameState) ==
    /\ k \in 1..Len(nets)
    /\ LET r == predict(nets[k], heap, gameState)
       IN  /\ nets' = [nets EXCEPT ![k] =
                         IF gameState = NoGameState THEN r.net
                         ELSE Passed(nets[k], heap, r,
                                     PredictInputs(gameState))]
           /\ nobs' = [NetObs("predict", k) EXCEPT
                          !.error = r.error, !.flag = r.flag]
    /\ UNCHANGED << heap, trainerVars, appVars >>

\* const other = nets[k].copy(): the copy takes the other place
Copy(k) ==
    /\ k \in 1..Len(nets)
    /\ LET r == copy(nets[k], heap)
           ns == IF k = 1 THEN << nets[1], r.net >> ELSE << r.net, nets[2] >>
       IN  IF r.error
           THEN /\ nobs' = [NetObs("copy", k) EXCEPT !.error = TRUE]
                /\ UNCHANGED << nets, heap >>
           ELSE /\ nets' = Compact(r.heap, ns).nets
                /\ heap' = Compact(r.heap, ns).heap
                /\ nobs' = NetObs("copy", k)
    /\ UNCHANGED << trainerVars, appVars >>

FromJSON(k, data) ==
    /\ k \in 1..Len(nets)
    /\ LET r == fromJSON(nets[k], heap, data)
           ns == [nets EXCEPT ![k] = r.net]
       IN  /\ nets' = Compact(r.heap, ns).nets
           /\ heap' = Compact(r.heap, ns).heap
           /\ nobs' = NetObs("fromJSON", k)
    /\ UNCHANGED << trainerVars, appVars >>

\* ------------------------------------------------------------------ App
\* The callbacks the App registers with requestAnimationFrame; the closure
\* trainStep of the Trainer is a record with learningRate and onComplete.
RenderCb == [fn |-> "render"]

AiLoopCb == [fn |-> "aiLoop"]

IsTrainStep(cb) == "learningRate" \in DOMAIN cb

RegisterFirst(queue, cb) == << cb >> \o queue

\* requestAnimationFrame(cb): callbacks run in the order of registration
requestAnimationFrame(queue, cb) == Append(queue, cb)

\* Game.reset()
GameReset(g) == [g EXCEPT !.bird = TRUE, !.gameState = "idle"]

\* Game.start(): reset(), then playing
GameStart(g) == [GameReset(g) EXCEPT !.gameState = "playing"]

\* Game.getGameState(): null without a bird
getGameState(g, telemetry) == IF g.bird THEN telemetry ELSE NoGameState

\* The observer the App installs: the Watch AI button is enabled once the
\* statistics show watchThreshold samples.
StatsEnable(btn, stats) ==
    IF stats.totalSamples >= watchThreshold
    THEN [btn EXCEPT !.disabled = FALSE]
    ELSE btn

\* The App after its constructor: the observer is installed and render() has
\* run once, registering itself.
AppInit ==
    /\ trainingData = << >>
    /\ isTraining = FALSE
    /\ trainingStats = ZeroStats
    /\ onStatsUpdate = "set"
    /\ nn = NewNetwork
    /\ pc = "idle"
    /\ tr = TrIdle
    /\ rafQueue = requestAnimationFrame(<< >>, RenderCb)
    /\ frameRun = << >>
    /\ inFrame = FALSE
    /\ added = << >>
    /\ obs = NewObs("new")
    /\ epochLog = << >>
    /\ burstsInFrame = 0
    /\ mode = "idle"
    /\ game = NewGame
    /\ watchBtn \in { [disabled |-> TRUE], [disabled |-> FALSE] }
    /\ tickLog = << >>
    /\ nets = << >>
    /\ heap = << >>
    /\ nobs = NewNetObs("new", 0)

\* startPlaying()
startPlaying ==
    /\ mode' = "playing"
    /\ game' = GameStart(game)
    /\ obs' = NewObs("startPlaying")

StartPlaying ==
    /\ Idle
    /\ startPlaying
    /\ UNCHANGED << trainingData, isTraining, trainingStats, onStatsUpdate, nn,
                    pc, tr, rafQueue, frameRun, inFrame, added, epochLog,
                    burstsInFrame, watchBtn, tickLog, netVars >>

\* handleFlap(): space bar or a click on the canvas
HandleFlap ==
    /\ Idle
    /\ IF mode = "idle" /\ game.gameState # "playing"
       THEN startPlaying
       ELSE /\ obs' = NewObs(IF mode = "playing" /\ game.gameState = "playing"
                             THEN "flap" ELSE "handleFlap")
            /\ UNCHANGED << mode, game >>
    /\ UNCHANGED << trainingData, isTraining, trainingStats, onStatsUpdate, nn,
                    pc, tr, rafQueue, frameRun, inFrame, added, epochLog,
                    burstsInFrame, watchBtn, tickLog, netVars >>

\* toggleTraining(): App.stopTraining() when the Trainer's flag is set,
\* App.startTraining() otherwise
ToggleTraining(learningRate) ==
    /\ Idle
    /\ IF isTraining
       THEN /\ mode' = "idle"
            /\ isTraining' = FALSE
            /\ obs' = NewObs("stopTraining")
            /\ UNCHANGED << pc, tr, rafQueue, burstsInFrame >>
       ELSE IF Len(trainingData) < batchSize
       THEN /\ obs' = NewObs("startTraining")
            /\ UNCHANGED << mode, isTraining, pc, tr, rafQueue, burstsInFrame >>
       ELSE /\ Len(rafQueue) <= MaxCallbacks
            /\ mode' = "training"
            /\ isTraining' = TRUE
            /\ trainStep([learningRate |-> learningRate, onComplete |-> FALSE],
                         isTraining', NewObs("startTraining"))
    /\ UNCHANGED << trainingData, trainingStats, onStatsUpdate, nn, frameRun,
                    inFrame, added, epochLog, game, watchBtn, tickLog, netVars >>

\* The steps the closure aiLoop takes when the mode is m and the game is g;
\* flap is what predict returns.
aiSteps(m, g, flap) ==
    IF m # "ai" \/ g.gameState # "playing" THEN << >>
    ELSE IF getGameState(g, CHOOSE t \in GameStates : TRUE) = NoGameState
    THEN << >>
    ELSE IF flap THEN << "decide", "flap" >>
    ELSE << "decide" >>

\* The closure aiLoop: it stops when the mode is not 'ai' or the game is not
\* playing; otherwise it asks the network, flaps and registers itself again.
aiLoop(m, g, flap, name) ==
    IF m # "ai" \/ g.gameState # "playing"
    THEN /\ obs' = NewObs(name)
         /\ UNCHANGED rafQueue
    ELSE IF getGameState(g, CHOOSE t \in GameStates : TRUE) = NoGameState
    THEN /\ obs' = [NewObs(name) EXCEPT !.error = TRUE]
         /\ UNCHANGED rafQueue
    ELSE /\ obs' = [NewObs(name) EXCEPT
                       !.ret = IF flap THEN [num |-> 1, den |-> 1] ELSE Zero]
         /\ rafQueue' = requestAnimationFrame(rafQueue, AiLoopCb)

\* startAI(): a click on the enabled Watch AI button
StartAI ==
    /\ Idle
    /\ ~watchBtn.disabled
    /\ Len(rafQueue) <= MaxCallbacks
    /\ mode' = "ai"
    /\ game' = GameStart(game)
    /\ \E flap \in BOOLEAN : aiLoop(mode', game', flap, "startAI")
    /\ UNCHANGED << trainingData, isTraining, trainingStats, onStatsUpdate, nn,
                    pc, tr, frameRun, inFrame, added, epochLog, burstsInFrame,
                    watchBtn, tickLog, netVars >>

\* App.reset()
AppReset ==
    /\ Idle
    /\ mode' = "idle"
    /\ game' = GameReset(game)
    /\ trainingData' = << >>
    /\ trainingStats' = ResetStats(trainingStats)
    /\ obs' = updateStats(NewObs("reset"), onStatsUpdate, trainingStats')
    /\ added' = << >>
    /\ nn' = NewNetwork
    /\ watchBtn' = [disabled |-> TRUE]
    /\ UNCHANGED << isTraining, onStatsUpdate, pc, tr, rafQueue, frameRun,
                    inFrame, epochLog, burstsInFrame, tickLog, netVars >>

\* render(): game.update(), game.draw(), visualizer.draw(), then register
\* itself again.  collide: the bird hits the ground, the ceiling or a pipe.
render(collide, telemetry) ==
    /\ IF game.gameState # "playing" \/ ~game.bird
       THEN /\ obs' = NewObs("render")
            /\ tickLog' = tickLog \o << "update", "draw" >>
            /\ UNCHANGED << game, mode, trainingData, trainingStats, added,
                            watchBtn >>
       ELSE IF collide
       THEN /\ game' = [game EXCEPT !.gameState = "gameover"]
            /\ mode' = "idle"
            /\ obs' = NewObs("render")
            /\ tickLog' = tickLog \o << "update", "draw" >>
            /\ UNCHANGED << trainingData, trainingStats, added, watchBtn >>
       ELSE IF mode = "playing"
       THEN /\ addSample(getGameState(game, telemetry),
                         calculateOptimalAction(telemetry), "render")
            /\ watchBtn' = StatsEnable(watchBtn, trainingStats')
            /\ tickLog' = tickLog \o << "update", "collect", "draw" >>
            /\ UNCHANGED << game, mode >>
       ELSE /\ obs' = NewObs("render")
            /\ tickLog' = tickLog \o << "update", "draw" >>
            /\ UNCHANGED << game, mode, trainingData, trainingStats, added,
                            watchBtn >>
    /\ rafQueue' = requestAnimationFrame(rafQueue, RenderCb)
    /\ UNCHANGED << pc, tr, burstsInFrame >>

\* The frame calls its next callback: render, a trainStep or an aiLoop.
AppRunCallback ==
    /\ inFrame
    /\ pc = "idle"
    /\ frameRun # << >>
    /\ frameRun' = Tail(frameRun)
    /\ LET cb == Head(frameRun)
       IN  IF IsTrainStep(cb)
           THEN /\ trainStep(cb, isTraining, NewObs("trainStep"))
                /\ tickLog' = IF pc' = "epoch" THEN Append(tickLog, "burst")
                              ELSE tickLog
                /\ UNCHANGED << game, mode, trainingData, trainingStats,
                                added, watchBtn >>
           ELSE IF cb = RenderCb
           THEN \E collide \in BOOLEAN, telemetry \in GameStates :
                    render(collide, telemetry)
           ELSE \E flap \in BOOLEAN :
                    /\ aiLoop(mode, game, flap, "aiLoop")
                    /\ tickLog' = tickLog \o aiSteps(mode, game, flap)
                    /\ UNCHANGED << game, mode, trainingData, trainingStats,
                                    added, watchBtn, pc, tr, burstsInFrame >>
    /\ UNCHANGED << isTraining, onStatsUpdate, nn, inFrame, epochLog, netVars >>

\* The frame is over when its last callback has returned.
AppFrame ==
    \/ FrameBegin
    \/ AppRunCallback
    \/ FrameEnd

\* ------------------------------------------------------- specifications
TrainRun ==
    \/ TrainEpoch
    \/ TrainBatch

Frame ==
    \/ FrameBegin
    \/ RunCallback
    \/ FrameEnd

\* The Trainer under its callers: addSample, collectFromGameState, train
\* and reset in any order.
Next ==
    \/ \E g \in GameStates \cup {NoGameState}, a \in Actions : AddSample(g, a)
    \/ \E g \in GameStates \cup {NoGameState} : CollectFromGameState(g)
    \/ \E lr \in LearningRates, e \in EpochArgs : Train(lr, e)
    \/ Reset
    \/ SetOnStatsUpdate
    \/ TrainRun

Spec == Init /\ [][Next]_vars

\* The Trainer under continuous training: samples arrive, the loop is
\* started and stopped, the host runs animation frames.
LoopNext ==
    \/ \E g \in GameStates : CollectFromGameState(g)
    \/ \E lr \in LearningRates, oc \in BOOLEAN : StartTraining(lr, oc)
    \/ StopTraining
    \/ TrainRun
    \/ Frame

LoopSpec == Init /\ [][LoopNext]_vars

\* The host keeps delivering frames and a running handler runs on.
LiveLoopSpec == LoopSpec /\ WF_vars(TrainRun) /\ WF_vars(Frame)

\* The App under its user and its host: clicks and key presses between
\* frames, and the animation frames that run render, trainStep and aiLoop.
AppNext ==
    \/ StartPlaying
    \/ HandleFlap
    \/ \E lr \in LearningRates : ToggleTraining(lr)
    \/ StartAI
    \/ AppReset
    \/ TrainRun
    \/ AppFrame

AppSpec == AppInit /\ [][AppNext]_vars


\* One network under its callers.
NetNext ==
    \/ \E inputs \in InputVectors : ForwardPass(1, inputs)
    \/ \E inputs \in InputVectors, targets \in TargetVectors,
          lr \in NetLearningRates : NetTrain(1, inputs, targets, lr)
    \/ \E g \in NetGameStates \cup {NoGameState} : Predict(1, g)
    \/ GetActivations(1)
    \/ \E data \in Payloads : FromJSON(1, data)

NetSpec == NetInit /\ [][NetNext]_vars

\* A network and its copies under their callers.
CopyNext ==
    \/ \E k \in 1..2 : Copy(k)
    \/ \E k \in 1..2, inputs \in CopyInputs, targets \in TargetVectors,
          lr \in NetLearningRates : NetTrain(k, inputs, targets, lr)
    \/ \E k \in 1..2, data \in CopyPayloads : FromJSON(k, data)

CopySpec == NetInit /\ [][CopyNext]_vars

\* The Trainer and the network under callers that may pass no telemetry.
TelemetryNext ==
    \/ \E g \in GameStates \cup {NoGameState}, a \in Actions : AddSample(g, a)
    \/ \E g \in GameStates \cup {NoGameState} : CollectFromGameState(g)
    \/ \E g \in NetGameStates \cup {NoGameState} : Predict(1, g)
    \/ SetOnStatsUpdate

TelemetrySpec == NetInit /\ [][TelemetryNext]_vars

\* ================================================================ claims
Min(a, b) == IF a < b THEN a ELSE b

\* The quotient q is the number 0.
IsZero(q) == q.den # 0 /\ q.num = 0

RECURSIVE Flatten(_)
Flatten(ss) == IF ss = << >> THEN << >> ELSE Head(ss) \o Flatten(Tail(ss))

Count(s, x) == Cardinality({ j \in 1..Len(s) : s[j] = x })

Elements(s) == { s[j] : j \in 1..Len(s) }

IsPermutation(s, t) ==
    /\ Len(s) = Len(t)
    /\ \A x \in Elements(s) \cup Elements(t) : Count(s, x) = Count(t, x)

\* A caller's call of the named method is this step.
Calls(name) == pc = "idle" /\ ~inFrame /\ obs'.op = name

\* The step in which a train() call that ran its epoch loop returns.
TrainExits == pc = "epoch" /\ pc' = "idle"

\* C1: between calls of addSample, collectFromGameState, train and reset the
\* buffer never holds more than maxSamples samples.
C1_LengthWithinCapacity == Len(trainingData) <= maxSamples

\* C1 witness: the buffer is full after a sample has been evicted.
C1_Witness == Len(trainingData) = maxSamples /\ Len(added) > maxSamples

\* C2: the buffer holds exactly the most recent min(n, maxSamples) of the n
\* samples added since the last reset, in arrival order, whatever train()
\* calls came in between.
C2_StrictFifo ==
    LET n == Len(added)
        m == Min(n, maxSamples)
    IN  trainingData = SubSeq(added, n - m + 1, n)

\* C2 witness: after training on the buffer, a sample that differs from its
\* successor has been evicted.
C2_Witness ==
    /\ pc = "idle"
    /\ Len(added) > maxSamples
    /\ added[1] # added[2]
    /\ nn.updates > 0

\* C3: train() called with fewer than batchSize samples returns 0 at once,
\* raises nothing, makes no network train step and changes neither the
\* statistics, nor the buffer, nor the network.
C3_ShortTrainIsNoOp ==
    [][ (Calls("train") /\ Len(trainingData) < batchSize) =>
            /\ pc' = "idle"
            /\ ~obs'.error
            /\ obs'.ret = Zero
            /\ nn' = nn
            /\ trainingStats' = trainingStats
            /\ trainingData' = trainingData ]_vars

\* C3 witness: train() has returned from a call made with batchSize - 1
\* samples, on a network trained before.
C3_Witness ==
    /\ pc = "idle"
    /\ obs.op = "train"
    /\ Len(trainingData) = batchSize - 1
    /\ Len(trainingData) > 0
    /\ nn.updates > 0

\* C4 as claimed: train() called with at least batchSize samples runs at
\* least one network train step and adds exactly the requested epoch count
\* to trainedEpochs, for every epoch count.
C4_TrainsForEveryEpochCount ==
    [][ /\ (Calls("train") /\ Len(trainingData) >= batchSize) => pc' = "epoch"
        /\ TrainExits =>
               /\ tr.nnCalls >= 1
               /\ trainingStats'.trainedEpochs = tr.entryEpochs + tr.epochs
      ]_vars

\* C4 amended: the same for every epoch count of at least 1.
C4_TrainsForPositiveEpochCount ==
    [][ /\ (Calls("train") /\ Len(trainingData) >= batchSize) => pc' = "epoch"
        /\ (TrainExits /\ tr.epochs >= 1) =>
               /\ tr.nnCalls >= 1
               /\ trainingStats'.trainedEpochs = tr.entryEpochs + tr.epochs
      ]_vars

\* C4 witness: a train() call with exactly batchSize samples and the largest
\* epoch count is about to return.
C4_Witness ==
    /\ pc = "epoch"
    /\ tr.caller = "api"
    /\ tr.epochs = MaxEpochs
    /\ tr.epoch = tr.epochs
    /\ Len(trainingData) = batchSize
    /\ tr.nnCalls = MaxEpochs * batchSize

\* C5 as claimed: no step other than reset() lowers trainedEpochs.
C5_EpochsNeverDecrease ==
    [][ Calls("reset") \/
        trainingStats'.trainedEpochs >= trainingStats.trainedEpochs ]_vars

\* C6: every epoch hands each buffered sample to the network exactly once,
\* in contiguous chunks of batchSize of the shuffled copy, only the last
\* chunk possibly smaller; a call makes epochs * n train steps and sets
\* currentLoss to the sum of the returned MSEs over that number.
C6_EpochsCoverBuffer ==
    [][ /\ (pc = "batch" /\ tr.i >= Len(tr.shuffled)) =>
               /\ IsPermutation(Flatten(epochLog), trainingData)
               /\ Flatten(epochLog) = tr.shuffled
               /\ \A j \in 1..(Len(epochLog) - 1) : Len(epochLog[j]) = batchSize
               /\ Len(epochLog) >= 1
               /\ Len(epochLog[Len(epochLog)]) \in 1..batchSize
               /\ tr.nnCalls = (tr.epoch + 1) * Len(trainingData)
        /\ (TrainExits /\ tr.epochs >= 0) =>
               /\ tr.nnCalls = tr.epochs * Len(trainingData)
               /\ trainingStats'.currentLoss = Div(tr.mseSum, tr.nnCalls)
               /\ obs'.ret = trainingStats'.currentLoss
      ]_vars

\* C6 witness: the second epoch of a call is over on a buffer of
\* batchSize + 1 samples, reordered by the shuffle, with a non-zero loss.
C6_Witness ==
    /\ pc = "batch"
    /\ tr.i >= Len(tr.shuffled)
    /\ tr.epoch = 1
    /\ Len(trainingData) = batchSize + 1
    /\ tr.shuffled # trainingData
    /\ Len(epochLog[Len(epochLog)]) = 1
    /\ tr.mseSum > 0

\* C7: after every step totalSamples is the buffer's length, and addSample,
\* collectFromGameState and reset hand the observer, when one is installed,
\* statistics with that value.
C7_StatsFollowBuffer ==
    [][ /\ trainingStats'.totalSamples = Len(trainingData')
        /\ ( /\ \/ Calls("addSample")
                \/ Calls("collectFromGameState")
                \/ Calls("reset")
             /\ ~obs'.error
             /\ onStatsUpdate # Null ) =>
               /\ obs'.notified = 1
               /\ obs'.statsArg.totalSamples = Len(trainingData')
      ]_vars

\* C7 witness: the observer has been told of a full buffer by the addSample
\* that evicted a sample.
C7_Witness ==
    /\ pc = "idle"
    /\ obs.op \in {"addSample", "collectFromGameState"}
    /\ obs.notified = 1
    /\ Len(added) > maxSamples
    /\ obs.statsArg.totalSamples = maxSamples

\* C8: reset() leaves the buffer empty and totalSamples, currentLoss and
\* trainedEpochs at 0, and hands the observer, when one is installed, those
\* zero values.
C8_ResetClears ==
    [][ Calls("reset") =>
            /\ trainingData' = << >>
            /\ trainingStats'.totalSamples = 0
            /\ IsZero(trainingStats'.currentLoss)
            /\ trainingStats'.trainedEpochs = 0
            /\ onStatsUpdate # Null =>
                   /\ obs'.notified = 1
                   /\ obs'.statsArg.totalSamples = 0
                   /\ IsZero(obs'.statsArg.currentLoss)
                   /\ obs'.statsArg.trainedEpochs = 0
      ]_vars

\* C8 witness: reset() has run with an observer installed on a Trainer whose
\* network had been trained.
C8_Witness ==
    /\ obs.op = "reset"
    /\ obs.notified = 1
    /\ nn.updates > 0
    /\ trainingData = << >>

\* No callback of a training loop is registered, being run or waiting.
NoLoop == rafQueue = << >> /\ frameRun = << >> /\ pc = "idle" /\ ~inFrame

\* The frame calls a callback in this step.
CallbackRuns == inFrame /\ pc = "idle" /\ frameRun # << >>

\* C9: a tick reads the flag once: set, it runs train(learningRate,
\* BurstEpochs) and registers the next tick; clear, it trains nothing, calls
\* onComplete and registers nothing; so once the flag is cleared and not set
\* again, no tick of the loop remains.
C9_StopEndsLoop ==
    /\ [][ /\ (CallbackRuns /\ ~isTraining) =>
                  /\ pc' = "idle"
                  /\ nn' = nn
                  /\ trainingStats' = trainingStats
                  /\ rafQueue' = rafQueue
                  /\ obs'.onComplete = Head(frameRun).onComplete
           /\ (CallbackRuns /\ isTraining) =>
                  \/ /\ pc' = "epoch"
                     /\ tr'.epochs = BurstEpochs
                     /\ tr'.learningRate = Head(frameRun).learningRate
                     /\ rafQueue' = rafQueue
                  \/ /\ pc' = "idle"
                     /\ Len(trainingData) < batchSize
                     /\ nn' = nn
                     /\ rafQueue' = Append(rafQueue, Head(frameRun))
           /\ (pc = "epoch" /\ pc' = "idle" /\ tr.caller = "trainStep") =>
                  rafQueue' = Append(rafQueue, tr.cb)
         ]_vars
    /\ (~isTraining) ~> (isTraining \/ NoLoop)

\* C9 witness: a loop that trained the network has been stopped; its last
\* tick called onComplete and no callback is left.
C9_Witness ==
    /\ ~isTraining
    /\ NoLoop
    /\ obs.op = "trainStep"
    /\ obs.onComplete
    /\ nn.updates > 0

\* C10 as claimed: at most one training loop is alive and at most one burst
\* trains the network in a frame.
C10_OneLoopOneBurstPerTick ==
    /\ Len(rafQueue) + Len(frameRun)
         + (IF pc # "idle" /\ tr.caller = "trainStep" THEN 1 ELSE 0) <= 1
    /\ burstsInFrame <= 1

\* The steps of the current frame are in non-decreasing rank.
InRankOrder(rank) ==
    \A i, j \in 1..Len(tickLog) : i < j => rank[tickLog[i]] <= rank[tickLog[j]]

\* C11 as claimed: in every frame the steps run in the order simulation
\* update, sample collection or policy decision, training burst, visualizer
\* read.
C11_ReadAfterBurstAndDecision ==
    InRankOrder([update |-> 1, collect |-> 2, decide |-> 2, flap |-> 2,
                 burst |-> 3, draw |-> 4])

\* C11 amended: in every frame the steps run in the order simulation update,
\* sample collection, visualizer read, and only then the training bursts and
\* policy decisions of the loops; the frame's first callback is render and a
\* frame whose callbacks have all run has made exactly one visualizer read.
C11_ReadBeforeBurstAndDecision ==
    /\ InRankOrder([update |-> 1, collect |-> 2, draw |-> 3,
                    burst |-> 4, decide |-> 4, flap |-> 4])
    /\ tickLog # << >> => tickLog[1] = "update"
    /\ Count(tickLog, "update") <= 1
    /\ Count(tickLog, "draw") <= 1
    /\ (inFrame /\ frameRun = << >> /\ pc = "idle") =>
           Count(tickLog, "draw") = 1

\* C11 witness: a frame has run the simulation update, a sample collection,
\* the visualizer read and a training burst.
C11_Witness ==
    /\ inFrame
    /\ Count(tickLog, "collect") = 1
    /\ Count(tickLog, "draw") = 1
    /\ Count(tickLog, "burst") >= 1

\* C18 as claimed: the Trainer's flag is set exactly when the App's mode is
\* 'training', and train() runs on the network only in that mode.
C18_TrainingOnlyInTrainingMode ==
    /\ isTraining <=> mode = "training"
    /\ pc # "idle" => mode = "training"

\* The aiLoop callbacks registered or waiting to be called in this frame.
AiLoops == Count(rafQueue, AiLoopCb) + Count(frameRun, AiLoopCb)

\* C19 as claimed: at most one aiLoop is alive, and a frame makes at most
\* one predict call and at most one flap.
C19_OneAiLoop ==
    /\ AiLoops <= 1
    /\ Count(tickLog, "decide") <= 1
    /\ Count(tickLog, "flap") <= 1

\* C12: forwardPass and the network's train step, called with an input
\* vector whose length is not inputSize, raise an error and leave the cached
\* activations and the four parameter arrays as they were; train applies no
\* weight update.
C12_WrongLengthChangesNothing ==
    [][ \A inputs \in InputVectors :
          Len(inputs) # nets[1].inputSize =>
            /\ ForwardPass(1, inputs) =>
                  nobs'.error /\ nets' = nets /\ heap' = heap
            /\ \A targets \in TargetVectors, lr \in NetLearningRates :
                  NetTrain(1, inputs, targets, lr) =>
                    /\ nobs'.error
                    /\ nets' = nets
                    /\ heap' = heap
                    /\ nobs'.trains = nobs.trains ]_vars

\* C12 witness: a train step with an input vector of the wrong length has
\* failed on a network that holds cached activations and trained weights.
C12_Witness ==
    /\ nobs.op = "train"
    /\ nobs.error
    /\ nobs.trains > 0
    /\ nets[1].pass.ok
    /\ nets[1].lastOutput.present
    /\ Len(heap[nets[1].weightsIH]) = nets[1].inputSize

\* Zero-filled vectors of the sizes of the network.
ZeroActivations(net) ==
    [ inputs |-> Zeros(net.inputSize), hidden |-> Zeros(net.hiddenSize),
      output |-> Zeros(net.outputSize) ]

\* C13 as claimed: getActivations never fails; before the first successful
\* forward pass it returns zero-filled vectors of the network's sizes, and
\* afterwards the vectors of the most recent successful forward pass.
C13_ActivationsOfLastSuccessfulPass ==
    nobs.op = "getActivations" =>
        LET net == nets[nobs.which]
        IN  /\ ~nobs.error
            /\ nobs.acts = IF net.pass.done THEN net.pass.last
                           ELSE ZeroActivations(net)

\* C13 amended: getActivations never fails; before the first forward pass
\* that got past the length check it returns zero-filled vectors of the
\* network's sizes; afterwards it returns what the most recent such pass
\* wrote: its three vectors when it returned, its inputs and an empty hidden
\* or output vector when it failed on a missing row of weights.
C13_ActivationsOfLastEnteredPass ==
    nobs.op = "getActivations" =>
        LET net == nets[nobs.which]
        IN  /\ ~nobs.error
            /\ ~net.pass.entered => nobs.acts = ZeroActivations(net)
            /\ net.pass.entered => nobs.acts.inputs = net.pass.inputs
            /\ (net.pass.entered /\ net.pass.ok) =>
                   /\ nobs.acts = net.pass.last
                   /\ Len(nobs.acts.inputs) = net.inputSize
                   /\ Len(nobs.acts.hidden) = net.hiddenSize
                   /\ Len(nobs.acts.output) = net.outputSize
            /\ (net.pass.entered /\ ~net.pass.ok) =>
                   \/ nobs.acts.hidden = << >>
                   \/ nobs.acts.output = << >>

\* C13 witness: getActivations has returned the vectors of a pass on the
\* second input vector, on a network trained before.
C13_Witness ==
    /\ nobs.op = "getActivations"
    /\ nobs.trains > 0
    /\ nets[1].pass.ok
    /\ nobs.acts.inputs = << 3, 5, 2, 7 >>
    /\ nobs.acts.output # Zeros(OutputSize)

\* The four parameter arrays of the network net on the heap h.
Parameters(net, h) ==
    [ weightsIH |-> h[net.weightsIH], weightsHO |-> h[net.weightsHO],
      biasH |-> h[net.biasH], biasO |-> h[net.biasO] ]

\* The network has no cached activations.
NoCaches(net) ==
    /\ ~net.lastInputs.present
    /\ ~net.lastHidden.present
    /\ ~net.lastOutput.present

\* A train step on one of two networks leaves the other's parameters alone.
TrainLeavesOtherAlone ==
    \A k \in 1..2, inputs \in CopyInputs, targets \in TargetVectors,
       lr \in NetLearningRates :
        (Len(nets) = 2 /\ NetTrain(k, inputs, targets, lr)) =>
            Parameters(nets'[3 - k], heap') = Parameters(nets[3 - k], heap)

\* C14 as claimed: copy returns a network of the same sizes whose four
\* parameter arrays equal the source's, that shares no array with the source
\* and has no cached activations; afterwards a train step on either network
\* leaves the other's parameters unchanged.
C14_CopyIsDeep ==
    [][ /\ \A k \in 1..Len(nets) :
              Copy(k) =>
                LET c == nets'[3 - k]
                IN  /\ ~nobs'.error
                    /\ c.inputSize = nets[k].inputSize
                    /\ c.hiddenSize = nets[k].hiddenSize
                    /\ c.outputSize = nets[k].outputSize
                    /\ Parameters(c, heap') = Parameters(nets[k], heap)
                    /\ Parameters(nets'[k], heap') = Parameters(nets[k], heap)
                    /\ Addresses(c) \cap Addresses(nets'[k]) = {}
                    /\ NoCaches(c)
        /\ TrainLeavesOtherAlone ]_vars

\* The rows below inputSize and the columns below hiddenSize of weights.
Block(weights, rows, cols) ==
    [ i \in 1..rows |-> [ j \in 1..cols |-> At(weights[i], j - 1) ] ]

\* The weights have a row for every unit of the layer that feeds them.
HasRows(net, h) ==
    /\ Len(h[net.weightsIH]) >= net.inputSize
    /\ Len(h[net.weightsHO]) >= net.hiddenSize

\* The parameter arrays have the sizes the network declares.
Wellformed(net, h) ==
    /\ Len(h[net.weightsIH]) = net.inputSize
    /\ \A i \in 1..Len(h[net.weightsIH]) :
           Len(h[net.weightsIH][i]) = net.hiddenSize
    /\ Len(h[net.weightsHO]) = net.hiddenSize
    /\ \A i \in 1..Len(h[net.weightsHO]) :
           Len(h[net.weightsHO][i]) = net.outputSize
    /\ Len(h[net.biasH]) = net.hiddenSize
    /\ Len(h[net.biasO]) = net.outputSize

\* C14 amended: the same for a source whose parameter arrays have the
\* declared sizes; on a source that was given other sizes copy fails when a
\* row of weights is missing and otherwise copies the weights of the declared
\* index range only and the biases whole, still sharing nothing.
C14_CopyIsDeepOnDeclaredRange ==
    [][ /\ \A k \in 1..Len(nets) :
              Copy(k) =>
                LET c == nets'[3 - k]
                    src == Parameters(nets[k], heap)
                    new == Parameters(c, heap')
                IN  /\ nobs'.error <=> ~HasRows(nets[k], heap)
                    /\ nobs'.error => nets' = nets /\ heap' = heap
                    /\ ~nobs'.error =>
                          /\ c.inputSize = nets[k].inputSize
                          /\ c.hiddenSize = nets[k].hiddenSize
                          /\ c.outputSize = nets[k].outputSize
                          /\ new.weightsIH = Block(src.weightsIH, c.inputSize,
                                                   c.hiddenSize)
                          /\ new.weightsHO = Block(src.weightsHO, c.hiddenSize,
                                                   c.outputSize)
                          /\ new.biasH = src.biasH
                          /\ new.biasO = src.biasO
                          /\ Wellformed(nets[k], heap) => new = src
                          /\ Parameters(nets'[k], heap') = src
                          /\ Addresses(c) \cap Addresses(nets'[k]) = {}
                          /\ NoCaches(c)
        /\ TrainLeavesOtherAlone ]_vars

\* C14 witness: a network with cached activations has been copied, and a
\* train step on the copy has changed the copy's parameters only.
C14_Witness ==
    /\ Len(nets) = 2
    /\ nobs.op = "train"
    /\ nobs.which = 2
    /\ ~nobs.error
    /\ nobs.trains > 1
    /\ nets[1].lastOutput.present
    /\ Wellformed(nets[1], heap)
    /\ Parameters(nets[1], heap) # Parameters(nets[2], heap)

\* fromJSON(data) raises nothing and leaves the network with the payload's
\* four arrays, its sizes and caches as they were.
ImportReplacesAll ==
    \A data \in Payloads :
        (nobs'.op = "fromJSON" /\ FromJSON(1, data)) =>
            /\ ~nobs'.error
            /\ Parameters(nets'[1], heap') = data
            /\ [nets'[1] EXCEPT !.weightsIH = 0, !.weightsHO = 0,
                                !.biasH = 0, !.biasO = 0]
                 = [nets[1] EXCEPT !.weightsIH = 0, !.weightsHO = 0,
                                   !.biasH = 0, !.biasO = 0]

\* This step is a forwardPass on an input vector of the right length, the
\* first operation after a fromJSON.
PassAfterImport(inputs) ==
    /\ nobs.op = "fromJSON"
    /\ Len(inputs) = nets[1].inputSize
    /\ ForwardPass(1, inputs)

\* C15 as claimed: fromJSON replaces the four arrays without an error
\* whatever the payload's sizes, and after a payload of other sizes than the
\* network's the next forwardPass on a correctly sized input fails.
C15_MismatchFailsNextPass ==
    [][ /\ ImportReplacesAll
        /\ \A inputs \in InputVectors :
              (PassAfterImport(inputs) /\ ~Wellformed(nets[1], heap)) =>
                  nobs'.error ]_vars

\* C15 amended: fromJSON replaces the four arrays without an error whatever
\* the payload's sizes; the next forwardPass on a correctly sized input
\* fails exactly when the payload's weightsIH has fewer rows than inputSize
\* or its weightsHO fewer rows than hiddenSize, and otherwise returns a
\* vector of outputSize entries.
C15_MissingRowsFailNextPass ==
    [][ /\ ImportReplacesAll
        /\ \A inputs \in InputVectors :
              PassAfterImport(inputs) =>
                  /\ nobs'.error <=> ~HasRows(nets[1], heap)
                  /\ ~nobs'.error => Len(nobs'.vec) = nets[1].outputSize
      ]_vars

\* C15 witness: a forwardPass has returned a vector on weights that have
\* one row more than the network has inputs.
C15_Witness ==
    /\ nobs.op = "forwardPass"
    /\ ~nobs.error
    /\ Len(nobs.vec) = OutputSize
    /\ Len(heap[nets[1].weightsIH]) = InputSize + 1

\* This step calls addSample, collectFromGameState or predict without
\* telemetry.
AbsentTelemetryCall ==
    \/ \E a \in Actions : AddSample(NoGameState, a)
    \/ CollectFromGameState(NoGameState)
    \/ Predict(1, NoGameState)

\* The operation this step performed raised an error.
Raised ==
    IF Predict(1, NoGameState) THEN nobs'.error ELSE obs'.error

\* The stats observer was not called in this step.
NotNotified ==
    IF Predict(1, NoGameState) THEN obs' = obs ELSE obs'.notified = 0

\* C16: addSample, collectFromGameState and predict called without
\* telemetry raise an error and leave the buffer, the statistics, the
\* network's parameters and its cached activations as they were, and the
\* stats observer is not notified.
C16_AbsentTelemetryChangesNothing ==
    [][ AbsentTelemetryCall =>
          /\ Raised
          /\ NotNotified
          /\ UNCHANGED << trainingData, trainingStats, nn, nets, heap >>
      ]_vars

\* C16 witness: with samples in the buffer, an observer installed and
\* activations cached, collectFromGameState and then predict have failed for
\* want of telemetry.
C16_Witness ==
    /\ obs.op = "collectFromGameState"
    /\ obs.error
    /\ nobs.op = "predict"
    /\ nobs.error
    /\ Len(trainingData) > 0
    /\ onStatsUpdate # Null
    /\ nets[1].lastOutput.present

\* x > y as the language compares numbers: false when either is NaN.
Greater(x, y) == x # NaN /\ y # NaN /\ x > y

\* C17: for present telemetry predict runs one forward pass on the vector
\* addSample stores as the sample's inputs (birdY, birdVelocity,
\* pipeDistance, pipeGapY) and returns true exactly when output[0] is
\* greater than 0.5, so false for an output of exactly 0.5.
C17_PredictIsStrictThreshold ==
    [][ \A g \in NetGameStates :
          (nobs'.op = "predict" /\ Predict(1, g)) =>
            LET inputs == MakeSample(g, 0).inputs
                r      == forwardPass(nets[1], heap, inputs)
            IN  /\ inputs = << g.birdY, g.birdVelocity,
                               g.pipeDistance, g.pipeGapY >>
                /\ nets'[1] = Passed(nets[1], heap, r, inputs)
                /\ heap' = heap
                /\ nobs'.error = r.error
                /\ ~r.error => (nobs'.flag <=> Greater(r.out[1], 5))
      ]_vars

\* C17 witness: predict has returned false on an output of exactly 0.5.
C17_Witness ==
    /\ nobs.op = "predict"
    /\ ~nobs.error
    /\ ~nobs.flag
    /\ nets[1].lastOutput = Some(<< 5 >>)

====
